---- MODULE Spec2Model ----
(***************************************************************************)
(* Packed Fenwick tree auction simulator (zhongeric/tree-visualizer).      *)
(*                                                                         *)
(* The module models                                                       *)
(*   - PackedFenwickTree (packWord/unpackWord, getValue/setValue, update,  *)
(*     query, beginTx) with its word mapping and the two access sets,      *)
(*   - AuctionSimulator.findClearingPrice / clearAuction on top of it,     *)
(*   - FrontierAuction (bid with its eviction loop, findNextSetBit).       *)
(*                                                                         *)
(* Representation of JavaScript BigInt values.  TLC integers are 32 bits,  *)
(* so a BigInt n is written <<k, r>> with n = k * 2^64 + r and r a small   *)
(* signed integer.  Addition, negation and comparison are exact on this    *)
(* form as long as |r| < 2^63, which every value of the model satisfies.   *)
(* `n & UINT64_MAX` is n mod 2^64: <<0, r>> for r >= 0 and <<1, r>>        *)
(* (that is 2^64 - |r|) for r < 0.                                         *)
(*                                                                         *)
(* A packed 256-bit word is written as its four base-2^64 digits, a        *)
(* function 0..3 -> BigInt in [0, 2^64).                                   *)
(***************************************************************************)
EXTENDS Integers, Sequences, FiniteSets, TLC

VARIABLES
    tree,           \* PackedFenwickTree.tree: word index -> packed word (present keys only)
    accessedWords,  \* PackedFenwickTree.accessedWords (read-seen set)
    dirtyWords,     \* PackedFenwickTree.dirtyWords (write-dirty set)
    vol,            \* history: per tick, the sum of all deltas applied by update
    seen,           \* history: word indexes that occurred in a returned read record
    written,        \* history: word indexes in a returned write record since the last beginTx
    pre,            \* history: the store as it was when the last call started
    last,           \* history: the last call, its arguments and what it returned
    volume,         \* FrontierAuction.volume: tick -> volume (present keys only)
    blockBits,      \* FrontierAuction.blockBits: block index -> mask (present keys only)
    Pstar,          \* FrontierAuction.Pstar
    Vstar,          \* FrontierAuction.Vstar
    fpc,            \* position of FrontierAuction.bid: "idle", or "loop" at the while test
    call,           \* locals of the running bid: tick, amount, totalGas, gasDetails, clearEvents
    bidPre,         \* history: the frontier state when the last bid was called
    nBids,          \* history: the number of bid calls so far
    bidResult,      \* what the last bid returned
    arg,            \* the argument of a pure function under check (packWord, the cost functions)
    ret,            \* what the pure functions applied to arg returned
    nCalls          \* history: the number of store calls made without the caller's precondition

storeVars == <<tree, accessedWords, dirtyWords, vol, seen, written, pre, last>>

frontierVars == <<volume, blockBits, Pstar, Vstar, fpc, call, bidPre, nBids, bidResult>>

pureVars == <<arg, ret, nCalls>>

vars == <<storeVars, frontierVars, pureVars>>

\* ------------------------------------------------------------------ bounds

\* Capacity of the store (the simulator constructs it with MAX_TICKS = 10000).
MAX_TICKS == 7

\* Model bound: updates are offered while the total volume stays within it.
MaxVolume == 3

\* Amounts a bid adds (the simulator draws 1..50).
Amounts == {1, 2}

\* Deltas passed to update directly: positive, and negative as the write phase passes them.
Deltas == {-1, 1, 2}

Ticks == 0 .. (MAX_TICKS - 1)

\* Capacity of the frontier auction.  main() constructs it with MAX_TICKS = 10000, which
\* is 39 * 256 + 16; the model keeps a capacity of two whole blocks and a partial one.
maxTicks == 520

\* Model bound: eviction steps one bid may take before the model stops following it.
MaxClearEvents == 6

\* Model bound: bids followed in one run of the frontier auction.
MaxBids == 3

\* Ticks and amounts offered to FrontierAuction.bid.
FrontierTicks == {0, 10, 20, 256, maxTicks - 1}

FrontierAmounts == {0, 400, 600, 1001}

\* ------------------------------------------------------------------ evaluation

\* F applied to the value of x: `const v = x; F(v)`.  x is evaluated once, as a statement
\* of the source evaluates its right-hand side once.
Let(x, F(_)) == CHOOSE y \in {F(v) : v \in {x}} : TRUE

\* ------------------------------------------------------------------ BigInt

Big(r) == <<0, r>>

BigAdd(a, b) == <<a[1] + b[1], a[2] + b[2]>>

BigNeg(a) == <<0 - a[1], 0 - a[2]>>

BigSub(a, b) == BigAdd(a, BigNeg(b))

BigLt(a, b) == a[1] < b[1] \/ (a[1] = b[1] /\ a[2] < b[2])

BigLe(a, b) == a = b \/ BigLt(a, b)

\* mutation: the value is not masked
And64MaxNoMask(a) == a

\* value & UINT64_MAX
And64Max(a) == IF a[2] >= 0 THEN <<0, a[2]>> ELSE <<1, a[2]>>

\* ------------------------------------------------------------------ word codec

ZeroWord == [i \in 0..3 |-> Big(0)]

getWordPosition(tick) == [wordIndex |-> tick \div 4, position |-> tick % 4]

\* a & b and a | b on naturals
RECURSIVE BitAnd(_, _)
BitAnd(a, b) ==
    IF a = 0 \/ b = 0 THEN 0
    ELSE (2 * BitAnd(a \div 2, b \div 2)) + (IF a % 2 = 1 /\ b % 2 = 1 THEN 1 ELSE 0)

BitOr(a, b) == (a + b) - BitAnd(a, b)

\* a | b on two 64-bit digits.  <<0, r>> is the natural r; <<1, r>> with r < 0 is
\* 2^64 + r, the 64-bit complement of -r - 1.
DigitOr(a, b) ==
    IF a[1] = 0 /\ b[1] = 0 THEN <<0, BitOr(a[2], b[2])>>
    ELSE IF a[1] = 1 /\ b[1] = 1 THEN <<1, 0 - (BitAnd((0 - a[2]) - 1, (0 - b[2]) - 1) + 1)>>
    ELSE LET c == IF a[1] = 1 THEN a ELSE b
             n == IF a[1] = 1 THEN b ELSE a
             x == (0 - c[2]) - 1
         IN  <<1, 0 - ((x - BitAnd(x, n[2])) + 1)>>

\* value << (BigInt(i) * UINT64_BITS) for a 64-bit value, as a 256-bit word
ShiftLeft64(value, i) == [j \in 0..3 |-> IF j = i THEN value ELSE Big(0)]

\* packed >> (BigInt(i) * UINT64_BITS)
ShiftRight64(packed, i) == [j \in 0..3 |-> IF j + i <= 3 THEN packed[j + i] ELSE Big(0)]

\* packed | shifted
WordOr(packed, shifted) == [j \in 0..3 |-> DigitOr(packed[j], shifted[j])]

\* packed & UINT64_MAX
WordAnd64Max(packed) == packed[0]

\* the loop of packWord: packed |= (value & UINT64_MAX) << (BigInt(i) * UINT64_BITS)
RECURSIVE packLoop(_, _, _)
packLoop(values, i, packed) ==
    IF i < 4
    THEN Let(IF i \in DOMAIN values THEN values[i] ELSE Big(0), LAMBDA value :
         Let(WordOr(packed, ShiftLeft64(And64Max(value), i)), LAMBDA p :
             packLoop(values, i + 1, p)))
    ELSE packed

packWord(values) == packLoop(values, 0, ZeroWord)

\* mutation: every lane is read without the shift
unpackWordNoShift(packed) == [i \in 0..3 |-> WordAnd64Max(packed)]

unpackWord(packed) == [i \in 0..3 |-> WordAnd64Max(ShiftRight64(packed, i))]

\* ------------------------------------------------------------------ store

\* this.tree.get(wordIndex) || 0n
treeGet(s, wordIndex) ==
    IF wordIndex \in DOMAIN s.tree THEN s.tree[wordIndex] ELSE ZeroWord

\* Map.set
mapSet(m, k, v) == [x \in (DOMAIN m) \cup {k} |-> IF x = k THEN v ELSE m[x]]

\* mutation: a read does not enter its word in the read-seen set
getValueNoMark(s, tick) ==
    LET wp == getWordPosition(tick)
        packed == treeGet(s, wp.wordIndex)
        isCold == wp.wordIndex \notin s.accessedWords
        values == unpackWord(packed)
    IN  [value |-> values[wp.position], wordIndex |-> wp.wordIndex, isCold |-> isCold,
         s |-> s]

\* mutation: a read stores the word it fetched
getValueMaterialises(s, tick) ==
    LET wp == getWordPosition(tick)
        packed == treeGet(s, wp.wordIndex)
        isCold == wp.wordIndex \notin s.accessedWords
        values == unpackWord(packed)
    IN  [value |-> values[wp.position], wordIndex |-> wp.wordIndex, isCold |-> isCold,
         s |-> [s EXCEPT !.accessedWords = @ \cup {wp.wordIndex},
                         !.tree = mapSet(@, wp.wordIndex, packed)]]

getValue(s, tick) ==
    LET wp == getWordPosition(tick)
        packed == treeGet(s, wp.wordIndex)
        isCold == wp.wordIndex \notin s.accessedWords
        values == unpackWord(packed)
    IN  [value |-> values[wp.position], wordIndex |-> wp.wordIndex, isCold |-> isCold,
         s |-> [s EXCEPT !.accessedWords = @ \cup {wp.wordIndex}]]

\* mutation: the write is classified by the read-seen set
setValueReadSeen(s, tick, value) ==
    LET wp == getWordPosition(tick)
        packed == treeGet(s, wp.wordIndex)
        values == [unpackWord(packed) EXCEPT ![wp.position] = value]
        newPacked == packWord(values)
        isCold == wp.wordIndex \notin s.accessedWords
    IN  [wordIndex |-> wp.wordIndex, isCold |-> isCold,
         s |-> [s EXCEPT !.tree = mapSet(@, wp.wordIndex, newPacked),
                         !.dirtyWords = @ \cup {wp.wordIndex}]]

\* mutation: the word is rebuilt from zero instead of from the stored word
setValueFreshWord(s, tick, value) ==
    LET wp == getWordPosition(tick)
        values == [unpackWord(ZeroWord) EXCEPT ![wp.position] = value]
        newPacked == packWord(values)
        isCold == wp.wordIndex \notin s.dirtyWords
    IN  [wordIndex |-> wp.wordIndex, isCold |-> isCold,
         s |-> [s EXCEPT !.tree = mapSet(@, wp.wordIndex, newPacked),
                         !.dirtyWords = @ \cup {wp.wordIndex}]]

setValue(s, tick, value) ==
    LET wp == getWordPosition(tick)
        packed == treeGet(s, wp.wordIndex)
        values == [unpackWord(packed) EXCEPT ![wp.position] = value]
        newPacked == packWord(values)
        isCold == wp.wordIndex \notin s.dirtyWords
    IN  [wordIndex |-> wp.wordIndex, isCold |-> isCold,
         s |-> [s EXCEPT !.tree = mapSet(@, wp.wordIndex, newPacked),
                         !.dirtyWords = @ \cup {wp.wordIndex}]]

\* mutation: the loops step by one instead of by the lowest set bit
LowBitPlusOne(idx) == 1

\* idx & -idx for idx > 0: the lowest set bit of idx
RECURSIVE LowBit(_)
LowBit(idx) == IF idx % 2 = 1 THEN 1 ELSE 2 * LowBit(idx \div 2)

\* mutation: each visited node is overwritten with delta instead of increased by it
RECURSIVE updateLoopOverwrite(_, _, _, _)
updateLoopOverwrite(s, idx, delta, operations) ==
    IF idx <= s.maxTicks
    THEN Let(getValue(s, idx - 1), LAMBDA g :
         Let(setValue(g.s, idx - 1, delta), LAMBDA w :
         Let(Append(operations,
                    [tick |-> idx - 1, wordIndex |-> g.wordIndex,
                     reads |-> <<[wordIndex |-> g.wordIndex, isCold |-> g.isCold]>>,
                     writes |-> <<[wordIndex |-> g.wordIndex, isCold |-> w.isCold]>>]),
             LAMBDA ops : updateLoopOverwrite(w.s, idx + LowBit(idx), delta, ops))))
    ELSE [operations |-> operations, s |-> s]

RECURSIVE updateLoop(_, _, _, _)
updateLoop(s, idx, delta, operations) ==
    IF idx <= s.maxTicks
    THEN Let(getValue(s, idx - 1), LAMBDA g :
         Let(setValue(g.s, idx - 1, BigAdd(g.value, delta)), LAMBDA w :
         Let(Append(operations,
                    [tick |-> idx - 1, wordIndex |-> g.wordIndex,
                     reads |-> <<[wordIndex |-> g.wordIndex, isCold |-> g.isCold]>>,
                     writes |-> <<[wordIndex |-> g.wordIndex, isCold |-> w.isCold]>>]),
             LAMBDA ops : updateLoop(w.s, idx + LowBit(idx), delta, ops))))
    ELSE [operations |-> operations, s |-> s]

\* mutation: the walk starts at the node after the tick's own
updateFromNext(s, tick, delta) == updateLoop(s, tick + 2, delta, <<>>)

update(s, tick, delta) == updateLoop(s, tick + 1, delta, <<>>)

\* mutation: the walk steps down by one node at a time
RECURSIVE queryLoopByOne(_, _, _, _)
queryLoopByOne(s, idx, sum, operations) ==
    IF idx > 0
    THEN Let(getValue(s, idx - 1), LAMBDA g :
         Let(Append(operations,
                    [tick |-> idx - 1, wordIndex |-> g.wordIndex, isCold |-> g.isCold]),
             LAMBDA ops : queryLoopByOne(g.s, idx - 1, BigAdd(sum, g.value), ops)))
    ELSE [sum |-> sum, operations |-> operations, s |-> s]

RECURSIVE queryLoop(_, _, _, _)
queryLoop(s, idx, sum, operations) ==
    IF idx > 0
    THEN Let(getValue(s, idx - 1), LAMBDA g :
         Let(Append(operations,
                    [tick |-> idx - 1, wordIndex |-> g.wordIndex, isCold |-> g.isCold]),
             LAMBDA ops : queryLoop(g.s, idx - LowBit(idx), BigAdd(sum, g.value), ops)))
    ELSE [sum |-> sum, operations |-> operations, s |-> s]

\* mutation: the walk starts one node too high
queryFromNext(s, tick) == queryLoop(s, tick + 2, Big(0), <<>>)

query(s, tick) == queryLoop(s, tick + 1, Big(0), <<>>)

\* mutation: beginTx clears both access sets
beginTxClearsBoth(s) == [s EXCEPT !.dirtyWords = {}, !.accessedWords = {}]

\* mutation: beginTx resets the whole store
beginTxFresh(s) == [s EXCEPT !.dirtyWords = {}, !.accessedWords = {}, !.tree = <<>>]

beginTx(s) == [s EXCEPT !.dirtyWords = {}]

\* ------------------------------------------------------------------ state and history

Store == [tree |-> tree, accessedWords |-> accessedWords, dirtyWords |-> dirtyWords,
          maxTicks |-> MAX_TICKS]

\* new PackedFenwickTree(maxTicks)
NewStore(n) == [tree |-> <<>>, accessedWords |-> {}, dirtyWords |-> {}, maxTicks |-> n]

RECURSIVE SumUpTo(_, _)
SumUpTo(f, t) == IF t < 0 THEN 0 ELSE f[t] + SumUpTo(f, t - 1)

TotalVolume == SumUpTo(vol, MAX_TICKS - 1)

ReadWordsOfUpdate(ops) == {ops[i].reads[1].wordIndex : i \in 1..Len(ops)}

WriteWordsOfUpdate(ops) == {ops[i].writes[1].wordIndex : i \in 1..Len(ops)}

ReadWordsOfQuery(ops) == {ops[i].wordIndex : i \in 1..Len(ops)}

\* A call record: op names the call; tick, delta, target are its arguments; sum and
\* operations are what update/query returned; clearingPrice, queryOps, updateOps are
\* clearAuction's search result and the log of its write phase; searched is the store
\* between the two phases of clearAuction.
NoCall == [op |-> "none", tick |-> -1, delta |-> 0, sum |-> Big(0), operations |-> <<>>,
           target |-> 0, clearingPrice |-> 0, queryOps |-> <<>>, updateOps |-> <<>>,
           searched |-> NewStore(MAX_TICKS), value |-> Big(0),
           iterations |-> <<>>, low |-> 0, high |-> 0]

Snapshot == [store |-> Store, vol |-> vol, seen |-> seen, written |-> written]

StoreInit ==
    /\ tree = <<>>
    /\ accessedWords = {}
    /\ dirtyWords = {}
    /\ vol = [t \in Ticks |-> 0]
    /\ seen = {}
    /\ written = {}
    /\ pre = [store |-> NewStore(MAX_TICKS), vol |-> [t \in Ticks |-> 0], seen |-> {}, written |-> {}]
    /\ last = NoCall

SetStore(s) ==
    /\ tree' = s.tree
    /\ accessedWords' = s.accessedWords
    /\ dirtyWords' = s.dirtyWords

\* tree.update(tick, delta).  The caller keeps the volume of every tick non-negative
\* ("callers are responsible for avoiding underflow").
Update ==
    \E tick \in Ticks, amount \in Deltas :
        /\ TotalVolume + amount <= MaxVolume
        /\ vol[tick] + amount >= 0
        /\ \E r \in {update(Store, tick, Big(amount))} :
               /\ SetStore(r.s)
               /\ vol' = [vol EXCEPT ![tick] = @ + amount]
               /\ seen' = seen \cup ReadWordsOfUpdate(r.operations)
               /\ written' = written \cup WriteWordsOfUpdate(r.operations)
               /\ pre' = Snapshot
               /\ last' = [NoCall EXCEPT !.op = "update", !.tick = tick, !.delta = amount,
                                          !.operations = r.operations]
        /\ UNCHANGED <<frontierVars, pureVars>>

\* Ticks passed to query: every tick, and -1 as clearAuction passes it for tick 0.
QueryTicks == Ticks \cup {-1}

\* tree.query(tick)
Query ==
    \E tick \in QueryTicks :
        \E r \in {query(Store, tick)} :
            /\ SetStore(r.s)
            /\ seen' = seen \cup ReadWordsOfQuery(r.operations)
            /\ pre' = Snapshot
            /\ last' = [NoCall EXCEPT !.op = "query", !.tick = tick, !.sum = r.sum,
                                       !.operations = r.operations]
            /\ UNCHANGED <<vol, written, frontierVars, pureVars>>

\* tree.getValue(tick), called on its own: the record it returns is kept as a one-entry log
GetValue ==
    \E tick \in Ticks :
        \E r \in {getValue(Store, tick)} :
            /\ SetStore(r.s)
            /\ seen' = seen \cup {r.wordIndex}
            /\ pre' = Snapshot
            /\ last' = [NoCall EXCEPT !.op = "getValue", !.tick = tick, !.value = r.value,
                                       !.operations = <<[tick |-> tick,
                                                         wordIndex |-> r.wordIndex,
                                                         isCold |-> r.isCold]>>]
            /\ UNCHANGED <<vol, written, frontierVars, pureVars>>

\* tree.beginTx()
BeginTx ==
    /\ SetStore(beginTx(Store))
    /\ written' = {}
    /\ pre' = Snapshot
    /\ last' = [NoCall EXCEPT !.op = "beginTx"]
    /\ UNCHANGED <<vol, seen, frontierVars, pureVars>>

\* ------------------------------------------------------------------ store, any argument

\* Model bound: calls followed when the caller does not keep the volumes non-negative.
MaxCalls == 3

\* Ticks, deltas and values of those calls.  The values are -1, 1, 2^64 and 2^64 + 1.
WrapTicks == {0, 2, 5}

WrapDeltas == {-2, -1, 1, 2}

SetValues == {<<0, -1>>, <<0, 1>>, <<1, 0>>, <<1, 1>>}

\* tree.update(tick, delta) with any delta: slots wrap around below 0 and above 2^64 - 1
UpdateWrap ==
    \E tick \in WrapTicks, amount \in WrapDeltas :
        /\ nCalls < MaxCalls
        /\ nCalls' = nCalls + 1
        /\ \E r \in {update(Store, tick, Big(amount))} :
               /\ SetStore(r.s)
               /\ vol' = [vol EXCEPT ![tick] = @ + amount]
               /\ seen' = seen \cup ReadWordsOfUpdate(r.operations)
               /\ written' = written \cup WriteWordsOfUpdate(r.operations)
               /\ pre' = Snapshot
               /\ last' = [NoCall EXCEPT !.op = "update", !.tick = tick, !.delta = amount,
                                          !.operations = r.operations]
        /\ UNCHANGED <<arg, ret, frontierVars>>

\* tree.getValue(tick) among those calls
GetValueWrap ==
    \E tick \in WrapTicks :
        /\ nCalls < MaxCalls
        /\ nCalls' = nCalls + 1
        /\ \E r \in {getValue(Store, tick)} :
               /\ SetStore(r.s)
               /\ seen' = seen \cup {r.wordIndex}
               /\ pre' = Snapshot
               /\ last' = [NoCall EXCEPT !.op = "getValue", !.tick = tick, !.value = r.value,
                                          !.operations = <<[tick |-> tick,
                                                            wordIndex |-> r.wordIndex,
                                                            isCold |-> r.isCold]>>]
        /\ UNCHANGED <<vol, written, arg, ret, frontierVars>>

\* tree.setValue(tick, value)
SetValue ==
    \E tick \in WrapTicks, value \in SetValues :
        /\ nCalls < MaxCalls
        /\ nCalls' = nCalls + 1
        /\ \E r \in {setValue(Store, tick, value)} :
               /\ SetStore(r.s)
               /\ written' = written \cup {r.wordIndex}
               /\ pre' = Snapshot
               /\ last' = [NoCall EXCEPT !.op = "setValue", !.tick = tick, !.value = value,
                                          !.operations = <<[wordIndex |-> r.wordIndex,
                                                            isCold |-> r.isCold]>>]
        /\ UNCHANGED <<vol, seen, arg, ret, frontierVars>>

\* ------------------------------------------------------------------ threshold search

\* iters is history: the low, high and mid of every iteration so far, in order
RECURSIVE searchLoop(_, _, _, _, _, _, _, _)
searchLoop(s, low, high, clearingPrice, allOps, totalVolume, targetVolume, iters) ==
    IF low <= high
    THEN Let((low + high) \div 2, LAMBDA mid :
         Let(Append(iters, [low |-> low, high |-> high, mid |-> mid]), LAMBDA its :
             IF mid = 0
             THEN searchLoop(s, mid + 1, high, clearingPrice, allOps, totalVolume,
                             targetVolume, its)
             ELSE Let(query(s, mid - 1), LAMBDA volumeBelowResult :
                  Let(allOps \o volumeBelowResult.operations, LAMBDA ops :
                  Let(BigSub(totalVolume, volumeBelowResult.sum), LAMBDA volumeFromTop :
                      IF BigLe(targetVolume, volumeFromTop)
                      THEN searchLoop(volumeBelowResult.s, mid + 1, high, mid, ops,
                                      totalVolume, targetVolume, its)
                      ELSE searchLoop(volumeBelowResult.s, low, mid - 1, clearingPrice, ops,
                                      totalVolume, targetVolume, its))))))
    ELSE [clearingPrice |-> clearingPrice, queryOps |-> allOps, s |-> s,
          iterations |-> iters, low |-> low, high |-> high]

\* what findClearingPrice returns when the book holds less than the target
NotEnoughVolume(s) ==
    [clearingPrice |-> -1, queryOps |-> <<>>, s |-> s, iterations |-> <<>>,
     low |-> 0, high |-> MAX_TICKS]

\* mutation: the search never records a candidate
findClearingPriceNoCandidate(s, targetVolume) ==
    Let(query(s, MAX_TICKS - 1), LAMBDA totalVolumeResult :
        IF BigLt(totalVolumeResult.sum, targetVolume)
        THEN NotEnoughVolume(totalVolumeResult.s)
        ELSE [searchLoop(totalVolumeResult.s, 0, MAX_TICKS, 0, totalVolumeResult.operations,
                         totalVolumeResult.sum, targetVolume, <<>>) EXCEPT !.clearingPrice = 0])

\* mutation: the search lacks the insufficient-volume test
findClearingPriceNoTest(s, targetVolume) ==
    Let(query(s, MAX_TICKS - 1), LAMBDA totalVolumeResult :
        searchLoop(totalVolumeResult.s, 0, MAX_TICKS, 0, totalVolumeResult.operations,
                   totalVolumeResult.sum, targetVolume, <<>>))

\* mutation: the search starts with high = 4 * MAX_TICKS
findClearingPriceWideRange(s, targetVolume) ==
    Let(query(s, MAX_TICKS - 1), LAMBDA totalVolumeResult :
        IF BigLt(totalVolumeResult.sum, targetVolume)
        THEN NotEnoughVolume(totalVolumeResult.s)
        ELSE searchLoop(totalVolumeResult.s, 0, 4 * MAX_TICKS, 0, totalVolumeResult.operations,
                        totalVolumeResult.sum, targetVolume, <<>>))

\* mutation: a failed search hands back the store as it was before the total-volume query
findClearingPriceFailsUntouched(s, targetVolume) ==
    Let(query(s, MAX_TICKS - 1), LAMBDA totalVolumeResult :
        IF BigLt(totalVolumeResult.sum, targetVolume)
        THEN NotEnoughVolume(s)
        ELSE searchLoop(totalVolumeResult.s, 0, MAX_TICKS, 0, totalVolumeResult.operations,
                        totalVolumeResult.sum, targetVolume, <<>>))

findClearingPrice(s, targetVolume) ==
    Let(query(s, MAX_TICKS - 1), LAMBDA totalVolumeResult :
        IF BigLt(totalVolumeResult.sum, targetVolume)
        THEN NotEnoughVolume(totalVolumeResult.s)
        ELSE searchLoop(totalVolumeResult.s, 0, MAX_TICKS, 0, totalVolumeResult.operations,
                        totalVolumeResult.sum, targetVolume, <<>>))

\* The write phase of clearAuction: for (tick = MAX_TICKS - 1; tick >= clearingPrice; tick--).
\* calls lists the update calls made, as <<tick, delta>>.
RECURSIVE writeLoop(_, _, _, _, _, _)
writeLoop(s, tick, clearingPrice, remainingVolumeToClear, allUpdateOps, calls) ==
    IF tick >= clearingPrice /\ ~BigLe(remainingVolumeToClear, Big(0))
    THEN Let(query(s, tick), LAMBDA q1 :
         Let(query(q1.s, tick - 1), LAMBDA q2 :
         Let(BigSub(q1.sum, q2.sum), LAMBDA volumeAtTick :
             IF BigLt(Big(0), volumeAtTick)
             THEN Let(IF BigLt(remainingVolumeToClear, volumeAtTick)
                      THEN remainingVolumeToClear ELSE volumeAtTick,
                      LAMBDA amountToClearFromTick :
                  Let(update(q2.s, tick, BigNeg(amountToClearFromTick)),
                      LAMBDA updateResult :
                  Let([remaining |-> BigSub(remainingVolumeToClear, amountToClearFromTick),
                       ops |-> allUpdateOps \o updateResult.operations,
                       calls |-> Append(calls, <<tick, BigNeg(amountToClearFromTick)>>)],
                      LAMBDA n :
                      writeLoop(updateResult.s, tick - 1, clearingPrice,
                                n.remaining, n.ops, n.calls))))
             ELSE writeLoop(q2.s, tick - 1, clearingPrice, remainingVolumeToClear,
                            allUpdateOps, calls))))
    ELSE [updateOps |-> allUpdateOps, calls |-> calls, s |-> s]

\* mutation: the write phase stops one tick above the clearing price
clearAuctionStopsEarly(s, targetVolume) ==
    Let(findClearingPrice(s, targetVolume), LAMBDA found :
        IF found.clearingPrice = -1
        THEN [clearingPrice |-> -1, queryOps |-> found.queryOps, wrote |-> FALSE,
              updateOps |-> <<>>, calls |-> <<>>, searched |-> found.s, found |-> found,
              s |-> found.s]
        ELSE Let(writeLoop(beginTx(found.s), MAX_TICKS - 1, found.clearingPrice + 1,
                           targetVolume, <<>>, <<>>), LAMBDA w :
                 [clearingPrice |-> found.clearingPrice, queryOps |-> found.queryOps,
                  wrote |-> TRUE, updateOps |-> w.updateOps, calls |-> w.calls,
                  searched |-> found.s, found |-> found, s |-> w.s]))

\* mutation: the write phase runs in the transaction of the call before
clearAuctionNoBeginTx(s, targetVolume) ==
    Let(findClearingPrice(s, targetVolume), LAMBDA found :
        IF found.clearingPrice = -1
        THEN [clearingPrice |-> -1, queryOps |-> found.queryOps, wrote |-> FALSE,
              updateOps |-> <<>>, calls |-> <<>>, searched |-> found.s, found |-> found,
              s |-> found.s]
        ELSE Let(writeLoop(found.s, MAX_TICKS - 1, found.clearingPrice,
                           targetVolume, <<>>, <<>>), LAMBDA w :
                 [clearingPrice |-> found.clearingPrice, queryOps |-> found.queryOps,
                  wrote |-> TRUE, updateOps |-> w.updateOps, calls |-> w.calls,
                  searched |-> found.s, found |-> found, s |-> w.s]))

\* searched is the store as the search phase left it
clearAuction(s, targetVolume) ==
    Let(findClearingPrice(s, targetVolume), LAMBDA found :
        IF found.clearingPrice = -1
        THEN [clearingPrice |-> -1, queryOps |-> found.queryOps, wrote |-> FALSE,
              updateOps |-> <<>>, calls |-> <<>>, searched |-> found.s, found |-> found,
              s |-> found.s]
        ELSE Let(writeLoop(beginTx(found.s), MAX_TICKS - 1, found.clearingPrice,
                           targetVolume, <<>>, <<>>), LAMBDA w :
                 [clearingPrice |-> found.clearingPrice, queryOps |-> found.queryOps,
                  wrote |-> TRUE, updateOps |-> w.updateOps, calls |-> w.calls,
                  searched |-> found.s, found |-> found, s |-> w.s]))

\* history: the per-tick sums after the update calls of a write phase
RECURSIVE ApplyCalls(_, _)
ApplyCalls(v, calls) ==
    IF calls = <<>> THEN v
    ELSE ApplyCalls([v EXCEPT ![calls[1][1]] = @ + calls[1][2][2]], Tail(calls))

\* Target volumes entered at the prompt of clearAuction.
Targets == 0 .. (MaxVolume + 1)

\* mutation: the bid does not open a transaction
bidNoBeginTx(s, tick, amount) == update(s, tick, amount)

\* FenwickAuction.bid: beginTx, then update; opResult is what update returned
bid(s, tick, amount) == update(beginTx(s), tick, amount)

\* FenwickAuction.bid(tick, amount)
Bid ==
    \E tick \in Ticks, amount \in Amounts :
        /\ TotalVolume + amount <= MaxVolume
        /\ \E r \in {bid(Store, tick, Big(amount))} :
               /\ SetStore(r.s)
               /\ vol' = [vol EXCEPT ![tick] = @ + amount]
               /\ seen' = seen \cup ReadWordsOfUpdate(r.operations)
               /\ written' = WriteWordsOfUpdate(r.operations)
               /\ pre' = Snapshot
               /\ last' = [NoCall EXCEPT !.op = "bid", !.tick = tick, !.delta = amount,
                                          !.operations = r.operations]
        /\ UNCHANGED <<frontierVars, pureVars>>

\* AuctionSimulator.clearAuction with the target volume read from the prompt
ClearAuction ==
    \E target \in Targets :
        \E r \in {clearAuction(Store, Big(target))} :
            /\ SetStore(r.s)
            /\ vol' = ApplyCalls(vol, r.calls)
            /\ seen' = seen \cup ReadWordsOfQuery(r.queryOps) \cup ReadWordsOfUpdate(r.updateOps)
            /\ written' = IF r.wrote THEN WriteWordsOfUpdate(r.updateOps) ELSE written
            /\ pre' = Snapshot
            /\ last' = [NoCall EXCEPT !.op = "clear", !.target = target,
                                       !.clearingPrice = r.clearingPrice,
                                       !.queryOps = r.queryOps, !.updateOps = r.updateOps,
                                       !.searched = r.searched,
                                       !.iterations = r.found.iterations,
                                       !.low = r.found.low, !.high = r.found.high]
            /\ UNCHANGED <<frontierVars, pureVars>>

\* ------------------------------------------------------------------ first simulator
\* The simulator of part_000 has its own search and no write phase.

\* the while loop of its findClearingPrice; iters is history, as in searchLoop
RECURSIVE searchLoopDraft(_, _, _, _, _, _, _, _)
searchLoopDraft(s, low, high, clearingPrice, finalOps, totalVolume, targetVolume, iters) ==
    IF low <= high
    THEN Let((low + high) \div 2, LAMBDA mid :
         Let(Append(iters, [low |-> low, high |-> high, mid |-> mid]), LAMBDA its :
         Let(query(s, mid), LAMBDA atMid :
         Let(query(atMid.s, mid - 1), LAMBDA below :
         Let(BigSub(totalVolume, below.sum), LAMBDA volumeFromTop :
             IF BigLe(targetVolume, volumeFromTop)
             THEN searchLoopDraft(below.s, mid + 1, high, mid, atMid.operations,
                                  totalVolume, targetVolume, its)
             ELSE searchLoopDraft(below.s, low, mid - 1, clearingPrice, finalOps,
                                  totalVolume, targetVolume, its))))))
    ELSE [clearingPrice |-> clearingPrice, queryOps |-> finalOps, s |-> s,
          iterations |-> iters, low |-> low, high |-> high]

findClearingPriceDraft(s, targetVolume) ==
    Let(query(s, MAX_TICKS - 1), LAMBDA totalVolumeResult :
        IF BigLt(totalVolumeResult.sum, targetVolume)
        THEN NotEnoughVolume(totalVolumeResult.s)
        ELSE searchLoopDraft(totalVolumeResult.s, 0, MAX_TICKS, 0, <<>>,
                             totalVolumeResult.sum, targetVolume, <<>>))

\* placeNextBid: beginTx, then update
placeNextBid(s, tick, amount) == update(beginTx(s), tick, amount)

\* placeNextBid() with the next bid of the generated list
PlaceNextBid ==
    \E tick \in Ticks, amount \in Amounts :
        /\ TotalVolume + amount <= MaxVolume
        /\ \E r \in {placeNextBid(Store, tick, Big(amount))} :
               /\ SetStore(r.s)
               /\ vol' = [vol EXCEPT ![tick] = @ + amount]
               /\ seen' = seen \cup ReadWordsOfUpdate(r.operations)
               /\ written' = WriteWordsOfUpdate(r.operations)
               /\ pre' = Snapshot
               /\ last' = [NoCall EXCEPT !.op = "placeNextBid", !.tick = tick,
                                          !.delta = amount, !.operations = r.operations]
        /\ UNCHANGED <<frontierVars, pureVars>>

\* clearAuction() of the first simulator: the search only
ClearAuctionDraft ==
    \E target \in Targets :
        \E r \in {findClearingPriceDraft(Store, Big(target))} :
            /\ SetStore(r.s)
            /\ seen' = seen \cup ReadWordsOfQuery(r.queryOps)
            /\ pre' = Snapshot
            /\ last' = [NoCall EXCEPT !.op = "clearDraft", !.target = target,
                                       !.clearingPrice = r.clearingPrice,
                                       !.queryOps = r.queryOps, !.searched = r.s,
                                       !.iterations = r.iterations,
                                       !.low = r.low, !.high = r.high]
            /\ UNCHANGED <<vol, written, frontierVars, pureVars>>

\* ------------------------------------------------------------------ frontier auction
\* A block mask (a BigInt of up to 256 bits) is written as the set of its set bit positions.

SALE_SUPPLY == 1000

BLOCK_SIZE == 256

COLD_SSTORE == 20000

WARM_SSTORE == 5000

COLD_SLOAD == 2100

\* mutation: the loop test is off by one
whileTestOffByOne(f) == f.Vstar > SALE_SUPPLY + 1

\* while (this.Vstar > SALE_SUPPLY)
whileTest(f) == f.Vstar > SALE_SUPPLY

\* this.volume.get(tick) || 0n
volumeGet(v, tick) == IF tick \in DOMAIN v THEN v[tick] ELSE 0

\* this.blockBits.get(blockIndex) || 0n
maskGet(b, blockIndex) == IF blockIndex \in DOMAIN b THEN b[blockIndex] ELSE {}

\* Map.delete
mapDelete(m, k) == [x \in (DOMAIN m) \ {k} |-> m[x]]

\* the number of `n >>= 1` steps until bit 0 of n is set: the lowest set position
countTrailingZeros(n) ==
    IF n = {} THEN 0
    ELSE CHOOSE count \in 0 .. (BLOCK_SIZE - 1) :
             count \in n /\ \A j \in 0 .. (count - 1) : j \notin n

\* mask & -mask
lowestSetBit(mask) == {b \in mask : \A c \in mask : b <= c}

RECURSIVE findLoop(_, _, _, _)
findLoop(b, blockIndex, tickInBlock, gas) ==
    IF blockIndex < (maxTicks \div BLOCK_SIZE)
    THEN LET mask == {x \in maskGet(b, blockIndex) : x >= tickInBlock}
             gas2 == gas + COLD_SLOAD
         IN  IF mask # {}
             THEN [next |-> (blockIndex * BLOCK_SIZE) + countTrailingZeros(lowestSetBit(mask)),
                   gas |-> gas2]
             ELSE findLoop(b, blockIndex + 1, 0, gas2)
    ELSE [next |-> maxTicks, gas |-> gas]

\* mutation: the scan restarts at tick 0 instead of startTick
findNextSetBitFromZero(b, startTick) == findLoop(b, 0, 0, 0)

findNextSetBit(b, startTick) ==
    findLoop(b, startTick \div BLOCK_SIZE, startTick % BLOCK_SIZE, 0)

Frontier == [volume |-> volume, blockBits |-> blockBits, Pstar |-> Pstar, Vstar |-> Vstar]

\* mutation: steps 1-3 leave the block mask as it is
bidBeginNoBit(f, tick, amount) ==
    LET oldVolume == volumeGet(f.volume, tick)
        volumeGas == IF oldVolume = 0 THEN COLD_SSTORE ELSE WARM_SSTORE
    IN  [f |-> [f EXCEPT !.volume = mapSet(@, tick, oldVolume + amount),
                         !.Vstar = @ + amount],
         totalGas |-> volumeGas,
         gasDetails |-> <<[op |-> <<"Update volume at tick", tick>>, gas |-> volumeGas]>>]

\* steps 1-3 of bid
bidBegin(f, tick, amount) ==
    LET oldVolume == volumeGet(f.volume, tick)
        volumeGas == IF oldVolume = 0 THEN COLD_SSTORE ELSE WARM_SSTORE
        blockIndex == tick \div BLOCK_SIZE
        tickInBlock == tick % BLOCK_SIZE
        oldMask == maskGet(f.blockBits, blockIndex)
        newMask == oldMask \cup {tickInBlock}
        maskGas == IF oldMask = {} THEN COLD_SSTORE ELSE WARM_SSTORE
    IN  [f |-> [f EXCEPT !.volume = mapSet(@, tick, oldVolume + amount),
                         !.Vstar = @ + amount,
                         !.blockBits = IF oldMask # newMask
                                       THEN mapSet(@, blockIndex, newMask) ELSE @],
         totalGas |-> volumeGas + (IF oldMask # newMask THEN maskGas ELSE 0),
         gasDetails |-> <<[op |-> <<"Update volume at tick", tick>>, gas |-> volumeGas]>>
                        \o (IF oldMask # newMask
                            THEN <<[op |-> <<"Set bit for block", blockIndex>>, gas |-> maskGas]>>
                            ELSE <<>>)]

\* mutation: the eviction leaves the presence bit of Pstar set
evictKeepsBit(f) ==
    LET pstarVolume == volumeGet(f.volume, f.Pstar)
        found == findNextSetBit(f.blockBits, f.Pstar + 1)
    IN  [f |-> [volume |-> mapDelete(f.volume, f.Pstar), blockBits |-> f.blockBits,
                Pstar |-> found.next, Vstar |-> f.Vstar - pstarVolume],
         gas |-> WARM_SSTORE + WARM_SSTORE + found.gas,
         event |-> [from |-> f.Pstar, to |-> found.next,
                    gas |-> WARM_SSTORE + WARM_SSTORE + found.gas]]

\* one iteration of `while (this.Vstar > SALE_SUPPLY)`
evict(f) ==
    LET pstarVolume == volumeGet(f.volume, f.Pstar)
        pstarBlock == f.Pstar \div BLOCK_SIZE
        pstarTickInBlock == f.Pstar % BLOCK_SIZE
        pstarMask == maskGet(f.blockBits, pstarBlock)
        bits == mapSet(f.blockBits, pstarBlock, pstarMask \ {pstarTickInBlock})
        found == findNextSetBit(bits, f.Pstar + 1)
    IN  [f |-> [volume |-> mapDelete(f.volume, f.Pstar), blockBits |-> bits,
                Pstar |-> found.next, Vstar |-> f.Vstar - pstarVolume],
         gas |-> WARM_SSTORE + WARM_SSTORE + found.gas,
         event |-> [from |-> f.Pstar, to |-> found.next,
                    gas |-> WARM_SSTORE + WARM_SSTORE + found.gas]]

NoBid == [tick |-> -1, amount |-> 0, totalGas |-> 0, gasDetails |-> <<>>, clearEvents |-> <<>>]

NoResult == [returned |-> FALSE, totalGas |-> 0, details |-> <<>>, tick |-> -1, amount |-> 0,
             Pstar |-> 0, Vstar |-> 0, clearEvents |-> <<>>]

FrontierInit ==
    /\ volume = <<>>
    /\ blockBits = <<>>
    /\ Pstar = 0
    /\ Vstar = 0
    /\ fpc = "idle"
    /\ call = NoBid
    /\ bidPre = [volume |-> <<>>, blockBits |-> <<>>, Pstar |-> 0, Vstar |-> 0]
    /\ nBids = 0
    /\ bidResult = NoResult

SetFrontier(f) ==
    /\ volume' = f.volume
    /\ blockBits' = f.blockBits
    /\ Pstar' = f.Pstar
    /\ Vstar' = f.Vstar

\* bid(tick, amount) is called and runs up to the first test of the while loop
BidBegin ==
    \E tick \in FrontierTicks, amount \in FrontierAmounts :
        /\ fpc = "idle"
        /\ nBids < MaxBids
        /\ nBids' = nBids + 1
        /\ \E r \in {bidBegin(Frontier, tick, amount)} :
               /\ SetFrontier(r.f)
               /\ call' = [tick |-> tick, amount |-> amount, totalGas |-> r.totalGas,
                           gasDetails |-> r.gasDetails, clearEvents |-> <<>>]
        /\ bidPre' = Frontier
        /\ fpc' = "loop"
        /\ UNCHANGED <<bidResult, storeVars, pureVars>>

\* the while test holds: one eviction
EvictStep ==
    /\ fpc = "loop"
    /\ whileTest(Frontier)
    /\ Len(call.clearEvents) < MaxClearEvents
    /\ \E r \in {evict(Frontier)} :
           /\ SetFrontier(r.f)
           /\ call' = [call EXCEPT !.totalGas = @ + r.gas,
                                   !.clearEvents = Append(@, r.event)]
    /\ UNCHANGED <<fpc, bidPre, nBids, bidResult, storeVars, pureVars>>

\* mutation: the detail of a clearing step leaves out the scan cost
ClearDetailNoScanGas(e) ==
    [op |-> <<"Clear from", e.from, "to", e.to>>, gas |-> WARM_SSTORE + WARM_SSTORE]

ClearDetail(e) == [op |-> <<"Clear from", e.from, "to", e.to>>, gas |-> e.gas]

\* the while test fails: bid builds its result and returns
BidReturn ==
    /\ fpc = "loop"
    /\ ~whileTest(Frontier)
    /\ bidResult' = [returned |-> TRUE,
                     totalGas |-> call.totalGas,
                     details |-> call.gasDetails
                                 \o [i \in 1..Len(call.clearEvents) |->
                                         ClearDetail(call.clearEvents[i])],
                     tick |-> call.tick, amount |-> call.amount,
                     Pstar |-> Pstar, Vstar |-> Vstar, clearEvents |-> call.clearEvents]
    /\ call' = NoBid
    /\ fpc' = "idle"
    /\ UNCHANGED <<volume, blockBits, Pstar, Vstar, bidPre, nBids, storeVars, pureVars>>

\* ------------------------------------------------------------------ word codec, applied

\* no pure function is under check
PureInit ==
    /\ arg = <<>>
    /\ ret = <<>>
    /\ nCalls = 0

\* Lane values handed to packWord: 0, 1, 2, 2^64 - 1 and, outside the range of a uint64,
\* -1, -2, 2^64 and 2^64 + 1.
CodecValues == {<<0, 0>>, <<0, 1>>, <<0, 2>>, <<1, -1>>, <<0, -1>>, <<0, -2>>, <<1, 0>>, <<1, 1>>}

NoCodec == [fn |-> "none", packed |-> ZeroWord, values |-> ZeroWord]

\* a 4-tuple of lane values is chosen
CodecInit ==
    /\ arg \in [0..3 -> CodecValues]
    /\ ret = NoCodec
    /\ nCalls = 0

\* packed = packWord(arg)
PackWord ==
    /\ ret.fn = "none"
    /\ ret' = [ret EXCEPT !.fn = "packWord", !.packed = packWord(arg)]
    /\ UNCHANGED <<arg, nCalls, storeVars, frontierVars>>

\* values = unpackWord(packed)
UnpackWord ==
    /\ ret.fn = "packWord"
    /\ ret' = [ret EXCEPT !.fn = "unpackWord", !.values = unpackWord(ret.packed)]
    /\ UNCHANGED <<arg, nCalls, storeVars, frontierVars>>

\* ------------------------------------------------------------------ gas profiler

COLD_SLOAD_COST == 2100

WARM_SLOAD_COST == 100

COLD_SSTORE_COST == 20000

WARM_SSTORE_COST == 5000

BIT_OP_COST == 3

\* for (const read of op.reads) opGas += read.isCold ? COLD_SLOAD_COST : WARM_SLOAD_COST
RECURSIVE readCostLoop(_, _, _)
readCostLoop(reads, i, opGas) ==
    IF i <= Len(reads)
    THEN readCostLoop(reads, i + 1,
                      opGas + (IF reads[i].isCold THEN COLD_SLOAD_COST ELSE WARM_SLOAD_COST))
    ELSE opGas

\* for (const write of op.writes) opGas += write.isCold ? COLD_SSTORE_COST : WARM_SSTORE_COST
RECURSIVE writeCostLoop(_, _, _)
writeCostLoop(writes, i, opGas) ==
    IF i <= Len(writes)
    THEN writeCostLoop(writes, i + 1,
                       opGas + (IF writes[i].isCold THEN COLD_SSTORE_COST ELSE WARM_SSTORE_COST))
    ELSE opGas

\* mutation: the pack cost is not charged
updateOpGasNoPack(op) ==
    writeCostLoop(op.writes, 1, readCostLoop(op.reads, 1, 0) + (BIT_OP_COST * 8))

\* opGas of one operation of an update log
updateOpGas(op) ==
    writeCostLoop(op.writes, 1, readCostLoop(op.reads, 1, 0) + (BIT_OP_COST * 8))
        + (BIT_OP_COST * 8)

RECURSIVE updateCostLoop(_, _, _, _)
updateCostLoop(operations, i, totalGas, details) ==
    IF i <= Len(operations)
    THEN Let(updateOpGas(operations[i]), LAMBDA opGas :
             updateCostLoop(operations, i + 1, totalGas + opGas,
                            Append(details, [tick |-> operations[i].tick,
                                             wordIndex |-> operations[i].wordIndex,
                                             gas |-> opGas])))
    ELSE [totalGas |-> totalGas, details |-> details]

calculateUpdateCost(operations) == updateCostLoop(operations, 1, 0, <<>>)

\* mutation: every read is charged as a cold read
queryOpGasAlwaysCold(op) == COLD_SLOAD_COST + (BIT_OP_COST * 8)

\* opGas of one operation of a query log
queryOpGas(op) ==
    (IF op.isCold THEN COLD_SLOAD_COST ELSE WARM_SLOAD_COST) + (BIT_OP_COST * 8)

RECURSIVE queryCostLoop(_, _, _, _)
queryCostLoop(operations, i, totalGas, details) ==
    IF i <= Len(operations)
    THEN Let(queryOpGas(operations[i]), LAMBDA opGas :
             queryCostLoop(operations, i + 1, totalGas + opGas,
                           Append(details, [tick |-> operations[i].tick,
                                            wordIndex |-> operations[i].wordIndex,
                                            gas |-> opGas])))
    ELSE [totalGas |-> totalGas, details |-> details]

calculateQueryCost(operations) == queryCostLoop(operations, 1, 0, <<>>)

\* Model bound: the number of operations of a log handed to the cost functions.
MaxLogLen == 2

\* Ticks named by the operations of a log.
GasTicks == {1, 6}

\* The reads (or writes) of one operation: none, one cold, one warm, a cold and a warm one.
SubRecords ==
    {<<>>} \cup {<<[wordIndex |-> 0, isCold |-> c]>> : c \in BOOLEAN}
           \cup {<<[wordIndex |-> 0, isCold |-> TRUE], [wordIndex |-> 1, isCold |-> FALSE]>>}

UpdateOps ==
    {[tick |-> t, wordIndex |-> getWordPosition(t).wordIndex, reads |-> r, writes |-> w] :
        t \in GasTicks, r \in SubRecords, w \in SubRecords}

QueryOps ==
    {[tick |-> t, wordIndex |-> getWordPosition(t).wordIndex, isCold |-> c] :
        t \in GasTicks, c \in BOOLEAN}

LogsOver(S) == UNION {[1..n -> S] : n \in 0..MaxLogLen}

NoGas == [fn |-> "none", totalGas |-> 0, details |-> <<>>]

\* an operation log is chosen
GasInit ==
    /\ arg \in {[kind |-> "update", operations |-> l] : l \in LogsOver(UpdateOps)}
             \cup {[kind |-> "query", operations |-> l] : l \in LogsOver(QueryOps)}
    /\ ret = NoGas
    /\ nCalls = 0

\* GasProfiler.calculateUpdateCost(operations)
CalculateUpdateCost ==
    /\ arg.kind = "update" /\ ret.fn = "none"
    /\ \E r \in {calculateUpdateCost(arg.operations)} :
           ret' = [fn |-> "calculateUpdateCost", totalGas |-> r.totalGas, details |-> r.details]
    /\ UNCHANGED <<arg, nCalls, storeVars, frontierVars>>

\* GasProfiler.calculateQueryCost(operations)
CalculateQueryCost ==
    /\ arg.kind = "query" /\ ret.fn = "none"
    /\ \E r \in {calculateQueryCost(arg.operations)} :
           ret' = [fn |-> "calculateQueryCost", totalGas |-> r.totalGas, details |-> r.details]
    /\ UNCHANGED <<arg, nCalls, storeVars, frontierVars>>

\* ------------------------------------------------------------------ specifications

Init == StoreInit /\ FrontierInit /\ PureInit

\* the store driven through its own interface
Next == Update \/ Query \/ GetValue \/ BeginTx

Spec == Init /\ [][Next]_vars

\* the store driven by the simulator: bids and clearings
NextAuction == Bid \/ ClearAuction

SpecAuction == Init /\ [][NextAuction]_vars

\* the first simulator: bids and clearings in any order
NextDraft == PlaceNextBid \/ ClearAuctionDraft

SpecDraft == Init /\ [][NextDraft]_vars

\* the frontier auction
NextFrontier == BidBegin \/ EvictStep \/ BidReturn

SpecFrontier == Init /\ [][NextFrontier]_vars

\* the store driven with any delta and any slot value
NextWrap == UpdateWrap \/ SetValue \/ GetValueWrap

SpecWrap == Init /\ [][NextWrap]_vars

\* packWord and unpackWord applied to every 4-tuple of CodecValues
InitCodec == StoreInit /\ FrontierInit /\ CodecInit

NextCodec == PackWord \/ UnpackWord

SpecCodec == InitCodec /\ [][NextCodec]_vars

\* the cost functions applied to every log of at most MaxLogLen operations
InitGas == StoreInit /\ FrontierInit /\ GasInit

NextGas == CalculateUpdateCost \/ CalculateQueryCost

SpecGas == InitGas /\ [][NextGas]_vars

\* ------------------------------------------------------------------ properties

Min(S) == CHOOSE x \in S : \A y \in S : x <= y

\* the volume of the ticks >= p in the per-tick volumes f
VolumeFrom(f, p) ==
    SumUpTo(f, MAX_TICKS - 1) - SumUpTo(f, IF p - 1 < MAX_TICKS THEN p - 1 ELSE MAX_TICKS - 1)

\* the read sub-records of the last update or query, in log order
ReadRecords ==
    [i \in 1..Len(last.operations) |->
        IF last.op = "update" THEN last.operations[i].reads[1]
        ELSE [wordIndex |-> last.operations[i].wordIndex,
              isCold |-> last.operations[i].isCold]]

\* the write sub-records of the last update, in log order
WriteRecords == [i \in 1..Len(last.operations) |-> last.operations[i].writes[1]]

FirstOfWord(recs, i) == \A j \in 1..(i - 1) : recs[j].wordIndex # recs[i].wordIndex

\* C1: in every state reached by update, query and beginTx calls, query(t).sum is the sum of
\* the deltas applied to ticks <= t, for every tick t, and so is the sum a query call
\* returned; with maxTicks = 16, after update(5, 10): query(5) = 10, query(4) = 0,
\* query(15) = 10.
C1_FenwickCorrect ==
    /\ \A t \in Ticks : query(Store, t).sum = Big(SumUpTo(vol, t))
    /\ last.op = "query" => last.sum = Big(SumUpTo(vol, last.tick))
    /\ LET s1 == update(NewStore(16), 5, Big(10)).s
       IN  /\ query(s1, 5).sum = Big(10)
           /\ query(s1, 4).sum = Big(0)
           /\ query(s1, 15).sum = Big(10)

\* C1 witness: updates at two ticks, then a query whose sum is a proper part of the total
C1_Witness ==
    /\ last.op = "query"
    /\ \E t1, t2 \in Ticks : t1 < t2 /\ vol[t1] > 0 /\ vol[t2] > 0 /\ t1 <= last.tick
                              /\ last.tick < t2
    /\ last.sum = Big(SumUpTo(vol, last.tick))
    /\ dirtyWords = {}

\* C2 as stated: for every target V <= T, the clearing price p has volume >= V at or above
\* p and volume < V above p.
C2_TightForAnyTarget ==
    (last.op = "clear" /\ last.target <= VolumeFrom(pre.vol, 0))
        => /\ VolumeFrom(pre.vol, last.clearingPrice) >= last.target
           /\ VolumeFrom(pre.vol, last.clearingPrice + 1) < last.target

\* C2 amended: for every target V with 0 < V <= T, the clearing price p has volume >= V at
\* or above p and volume < V above p.
C2_TightForPositiveTarget ==
    (last.op = "clear" /\ 0 < last.target /\ last.target <= VolumeFrom(pre.vol, 0))
        => /\ VolumeFrom(pre.vol, last.clearingPrice) >= last.target
           /\ VolumeFrom(pre.vol, last.clearingPrice + 1) < last.target

\* C2 witness: a search that succeeds strictly inside the book, with volume on both sides
C2_Witness ==
    /\ last.op = "clear"
    /\ 0 < last.target
    /\ 0 < last.clearingPrice /\ last.clearingPrice < MAX_TICKS - 1
    /\ VolumeFrom(pre.vol, last.clearingPrice + 1) > 0
    /\ SumUpTo(pre.vol, last.clearingPrice - 1) > 0

\* C3: when the target exceeds query(maxTicks - 1).sum, the search returns -1 with an empty
\* operation list and the write phase performs no update (no slot, no dirty word changes).
C3_InsufficientVolume ==
    (last.op = "clear"
     /\ BigLt(query(pre.store, MAX_TICKS - 1).sum, Big(last.target)))
        => /\ last.clearingPrice = -1
           /\ last.queryOps = <<>>
           /\ last.updateOps = <<>>
           /\ tree = pre.store.tree
           /\ dirtyWords = pre.store.dirtyWords
           /\ vol = pre.vol

\* C3 witness: a clearing of a non-empty book that asks for more than it holds
C3_Witness ==
    /\ last.op = "clear"
    /\ last.clearingPrice = -1
    /\ VolumeFrom(pre.vol, 0) > 0
    /\ pre.store.dirtyWords # {}

\* C4: a read sub-record is cold exactly when no earlier read sub-record, of this or of any
\* earlier call, touched its word; the read-seen set only grows.
C4_ColdOnce ==
    /\ last.op \in {"update", "query", "getValue"} =>
           \A i \in 1..Len(ReadRecords) :
               ReadRecords[i].isCold
                   <=> (ReadRecords[i].wordIndex \notin pre.seen /\ FirstOfWord(ReadRecords, i))
    /\ pre.store.accessedWords \subseteq accessedWords

\* C4 witness: after an update and a beginTx, a query with a warm read
C4_Witness ==
    /\ last.op = "query"
    /\ tree # <<>> /\ dirtyWords = {}
    /\ \E i \in 1..Len(ReadRecords) : ~ReadRecords[i].isCold
    /\ \E i \in 1..Len(ReadRecords) : ReadRecords[i].isCold

\* C5: a write sub-record is warm exactly when its word was already written since the most
\* recent beginTx (by this or an earlier update); the first write after beginTx is cold.
C5_WriteDirtyReset ==
    last.op = "update" =>
        \A i \in 1..Len(WriteRecords) :
            ~WriteRecords[i].isCold
                <=> (WriteRecords[i].wordIndex \in pre.written \/ ~FirstOfWord(WriteRecords, i))

\* C5 witness: after a beginTx, an update writes a word of the previous transaction cold
\* and then writes it again warm
C5_Witness ==
    /\ last.op = "update"
    /\ pre.written = {}
    /\ \E i, j \in 1..Len(WriteRecords) :
           /\ i < j
           /\ WriteRecords[i].wordIndex = WriteRecords[j].wordIndex
           /\ WriteRecords[i].wordIndex \in DOMAIN pre.store.tree
           /\ WriteRecords[i].isCold /\ ~WriteRecords[j].isCold

\* C6: Pstar never decreases, in any step of any bid (steps 1-3, each eviction, the return).
C6_PstarMonotone == [][Pstar' >= Pstar]_vars

\* C6 witness: inside the eviction loop, after the frontier advanced twice
C6_Witness ==
    /\ fpc = "loop"
    /\ Len(call.clearEvents) >= 2
    /\ \A i \in 1..Len(call.clearEvents) : call.clearEvents[i].from < call.clearEvents[i].to
    /\ Pstar > bidPre.Pstar /\ Pstar < maxTicks

\* C7: when a bid has returned, Vstar <= SALE_SUPPLY; after bids (10, 600) and (20, 600)
\* (the scenario of the specification at the supply of the code), also Pstar > 10.
C7_VstarWithinSupply ==
    /\ fpc = "idle" => Vstar <= SALE_SUPPLY
    /\ bidResult.returned => bidResult.Vstar <= SALE_SUPPLY
    /\ (fpc = "idle" /\ nBids = 2 /\ bidResult.tick = 20 /\ bidResult.amount = 600
        /\ bidPre.volume = (10 :> 600) /\ bidPre.Vstar = 600)
           => Pstar > 10

\* C7 witness: the scenario, bids (10, 600) then (20, 600), has returned
C7_Witness ==
    /\ fpc = "idle" /\ nBids = 2 /\ bidResult.returned
    /\ bidResult.tick = 20 /\ bidResult.amount = 600
    /\ bidPre.volume = (10 :> 600) /\ bidPre.Vstar = 600
    /\ Len(bidResult.clearEvents) = 2

RECURSIVE SumOver(_, _)
SumOver(f, S) == IF S = {} THEN 0 ELSE LET x == Min(S) IN f[x] + SumOver(f, S \ {x})

\* C8: after every bid, Vstar is the sum of volume[t] over the ticks t >= Pstar of the map.
C8_VstarIsVolumeAtOrAbovePstar ==
    (fpc = "idle" /\ bidResult.returned)
        => Vstar = SumOver(volume, {t \in DOMAIN volume : t >= Pstar})

\* C9: the eviction loop exits: it never reaches a state in which its test holds and its
\* body leaves volume, blockBits, Pstar and Vstar as they are (all later iterations then
\* repeat this one).
C9_BidTerminates ==
    ~(fpc = "loop" /\ whileTest(Frontier) /\ evict(Frontier).f = Frontier)

\* the ticks whose presence bit is set
SetTicks ==
    {t \in 0 .. (maxTicks - 1) : (t % BLOCK_SIZE) \in maskGet(blockBits, t \div BLOCK_SIZE)}

\* C10: findNextSetBit(start) is the smallest tick >= start whose presence bit is set, and
\* maxTicks only when there is none.
C10_FindNextSetBit ==
    \A start \in FrontierTicks \cup {t + 1 : t \in FrontierTicks} :
        LET S == {t \in SetTicks : t >= start}
        IN  findNextSetBit(blockBits, start).next = (IF S = {} THEN maxTicks ELSE Min(S))

\* the value of a modulo 2^64: the value in [0, 2^64) that differs from a by a multiple of 2^64
InRange64(a) == (a[1] = 0 /\ a[2] >= 0) \/ (a[1] = 1 /\ a[2] < 0)

Mod64(a) == CHOOSE c \in {<<0, a[2]>>, <<1, a[2]>>} : InRange64(c)

\* C11: unpackWord(packWord(v)) returns, lane by lane, v[i] modulo 2^64: v[i] itself when it
\* is in [0, 2^64), and no lane depends on the value of another lane.
C11_RoundTrip ==
    ret.fn = "unpackWord" =>
        \A i \in 0..3 :
            /\ ret.values[i] = Mod64(arg[i])
            /\ InRange64(arg[i]) => ret.values[i] = arg[i]

\* C11 witness: a round trip of four different lanes, one negative, one above 2^64 - 1, one
\* equal to 2^64 - 1 and one small
C11_Witness ==
    /\ ret.fn = "unpackWord"
    /\ arg[0] = <<0, 2>> /\ arg[1] = <<0, -1>> /\ arg[2] = <<1, 1>> /\ arg[3] = <<1, -1>>
    /\ ret.values = [i \in 0..3 |-> IF i = 0 THEN <<0, 2>> ELSE IF i = 2 THEN <<0, 1>> ELSE <<1, -1>>]

\* C12: beginTx empties the write-dirty set and leaves the read-seen set, the word mapping
\* and the value of every slot as they were.
C12_BeginTxFrame ==
    last.op = "beginTx" =>
        /\ dirtyWords = {}
        /\ accessedWords = pre.store.accessedWords
        /\ tree = pre.store.tree
        /\ \A t \in Ticks : getValue(Store, t).value = getValue(pre.store, t).value

\* C12 witness: beginTx called on a store with words, read-seen words and dirty words
C12_Witness ==
    /\ last.op = "beginTx"
    /\ pre.store.dirtyWords # {}
    /\ accessedWords # {}
    /\ Cardinality(DOMAIN tree) = 2

\* C16: in every state of the store query(-1) returns sum 0 and an empty operation list and
\* leaves the word mapping and both access sets as they are.
C16_QueryMinusOne ==
    /\ query(Store, -1) = [sum |-> Big(0), operations |-> <<>>, s |-> Store]
    /\ (last.op = "query" /\ last.tick = -1)
           => /\ last.sum = Big(0)
              /\ last.operations = <<>>
              /\ Store = pre.store

\* C16 witness: query(-1) called on a store that holds volume and has unread words
C16_Witness ==
    /\ last.op = "query" /\ last.tick = -1
    /\ TotalVolume > 0
    /\ accessedWords # {0, 1}
    /\ dirtyWords # {}

\* C19: every word present in the word mapping is non-zero.
C19_SparseStorage == \A w \in DOMAIN tree : tree[w] # ZeroWord

RECURSIVE SumGas(_, _)
SumGas(details, n) == IF n = 0 THEN 0 ELSE details[n].gas + SumGas(details, n - 1)

\* C13: calculateUpdateCost returns one detail (tick, wordIndex, gas) per operation, in log
\* order; an operation with one read and one write costs readCost + 24 + writeCost + 24
\* (read 2100 cold, 100 warm; write 20000 cold, 5000 warm); totalGas is the sum of the
\* details' gas.
C13_UpdateCost ==
    ret.fn = "calculateUpdateCost" =>
        /\ Len(ret.details) = Len(arg.operations)
        /\ \A i \in 1..Len(arg.operations) :
               LET op == arg.operations[i]
               IN  /\ ret.details[i].tick = op.tick
                   /\ ret.details[i].wordIndex = op.wordIndex
                   /\ (Len(op.reads) = 1 /\ Len(op.writes) = 1)
                          => ret.details[i].gas
                                 = (IF op.reads[1].isCold THEN 2100 ELSE 100) + 24
                                   + (IF op.writes[1].isCold THEN 20000 ELSE 5000) + 24
        /\ ret.totalGas = SumGas(ret.details, Len(ret.details))

\* C13 witness: a log of two operations with one read and one write each, warm read with
\* cold write, then cold read with warm write: 20148 + 7148
C13_Witness ==
    /\ ret.fn = "calculateUpdateCost"
    /\ Len(arg.operations) = 2
    /\ \A i \in 1..2 : Len(arg.operations[i].reads) = 1 /\ Len(arg.operations[i].writes) = 1
    /\ ~arg.operations[1].reads[1].isCold /\ arg.operations[1].writes[1].isCold
    /\ arg.operations[2].reads[1].isCold /\ ~arg.operations[2].writes[1].isCold
    /\ arg.operations[1].tick # arg.operations[2].tick
    /\ ret.totalGas = 27296

\* C14: calculateQueryCost returns one detail per operation, in log order; a cold operation
\* costs 2100 + 24, a warm one 100 + 24; totalGas is the sum of the details' gas, 0 for the
\* empty log.
C14_QueryCost ==
    ret.fn = "calculateQueryCost" =>
        /\ Len(ret.details) = Len(arg.operations)
        /\ \A i \in 1..Len(arg.operations) :
               /\ ret.details[i].tick = arg.operations[i].tick
               /\ ret.details[i].wordIndex = arg.operations[i].wordIndex
               /\ ret.details[i].gas = (IF arg.operations[i].isCold THEN 2100 ELSE 100) + 24
        /\ ret.totalGas = SumGas(ret.details, Len(ret.details))
        /\ arg.operations = <<>> => ret.totalGas = 0

\* C14 witness: a log of a cold and a warm operation: 2124 + 124
C14_Witness ==
    /\ ret.fn = "calculateQueryCost"
    /\ Len(arg.operations) = 2
    /\ arg.operations[1].isCold /\ ~arg.operations[2].isCold
    /\ arg.operations[1].tick # arg.operations[2].tick
    /\ ret.totalGas = 2248

\* the standalone volume of tick t: query(t).sum - query(t - 1).sum
Standalone(s, t) == BigSub(query(s, t).sum, query(s, t - 1).sum)

\* C15: after a search that found clearing price p for target V, the write phase touches
\* only nodes of ticks >= p and leaves the total reduced by V, every tick above p at
\* standalone volume 0, tick p reduced by the remainder V - (volume above p), every tick
\* below p unchanged, and no slot below zero (wrapped).
C15_WritePhase ==
    (last.op = "clear" /\ last.clearingPrice # -1) =>
        LET p == last.clearingPrice
            V == last.target
        IN  /\ query(Store, MAX_TICKS - 1).sum = Big(VolumeFrom(pre.vol, 0) - V)
            /\ \A t \in Ticks :
                   Standalone(Store, t)
                       = Big(IF t > p THEN 0
                             ELSE IF t = p THEN pre.vol[p] - (V - VolumeFrom(pre.vol, p + 1))
                             ELSE pre.vol[t])
            /\ \A i \in 1..Len(last.updateOps) : last.updateOps[i].tick >= p
            /\ \A w \in DOMAIN tree : \A i \in 0..3 : tree[w][i][1] = 0 /\ tree[w][i][2] >= 0

\* C15 witness: a clearing that empties a tick above the clearing price and takes a part
\* of the volume at the clearing price
C15_Witness ==
    /\ last.op = "clear" /\ last.clearingPrice \in Ticks
    /\ VolumeFrom(pre.vol, last.clearingPrice + 1) > 0
    /\ VolumeFrom(vol, last.clearingPrice + 1) = 0
    /\ 0 < vol[last.clearingPrice] /\ vol[last.clearingPrice] < pre.vol[last.clearingPrice]
    /\ Standalone(Store, last.clearingPrice) = Big(vol[last.clearingPrice])

\* C20: query(t), for every t, and the search phase of every clearing leave the word
\* mapping (its keys and every slot) and the write-dirty set as they are and only add to the
\* read-seen set; a tick of an absent word reads as 0.
C20_ReadsAreReadOnly ==
    /\ \A t \in QueryTicks :
           LET r == query(Store, t)
           IN  /\ r.s.tree = tree
               /\ r.s.dirtyWords = dirtyWords
               /\ accessedWords \subseteq r.s.accessedWords
    /\ \A t \in Ticks :
           getWordPosition(t).wordIndex \notin DOMAIN tree => getValue(Store, t).value = Big(0)
    /\ last.op = "clear"
           => /\ last.searched.tree = pre.store.tree
              /\ last.searched.dirtyWords = pre.store.dirtyWords
              /\ pre.store.accessedWords \subseteq last.searched.accessedWords

\* C20 witness: a search that found a price after reading, for the first time, a word that
\* is absent from the mapping, on a store with dirty words
C20_Witness ==
    /\ last.op = "clear" /\ last.clearingPrice \in Ticks
    /\ pre.store.dirtyWords # {}
    /\ \E w \in last.searched.accessedWords :
           w \notin pre.store.accessedWords /\ w \notin DOMAIN last.searched.tree

\* C17: setValue(tick, value) leaves the slot of tick at value modulo 2^64; every other
\* tick, in the same word or another, reads back as before, and no other word of the
\* mapping changes, whatever the value (negative, or 2^64 and above).
C17_LaneIsolation ==
    last.op = "setValue" =>
        /\ getValue(Store, last.tick).value = Mod64(last.value)
        /\ \A t \in Ticks \ {last.tick} :
               getValue(Store, t).value = getValue(pre.store, t).value
        /\ DOMAIN tree = DOMAIN pre.store.tree \cup {getWordPosition(last.tick).wordIndex}
        /\ \A w \in DOMAIN pre.store.tree :
               w # getWordPosition(last.tick).wordIndex => tree[w] = pre.store.tree[w]

\* C17 witness: a value outside [0, 2^64) is set in a word that holds, in other lanes, a
\* wrapped value (2^64 - 1 or 2^64 - 2) and a small positive value
C17_Witness ==
    /\ last.op = "setValue"
    /\ ~InRange64(last.value)
    /\ \E t \in Ticks \ {last.tick} :
           /\ getWordPosition(t).wordIndex = getWordPosition(last.tick).wordIndex
           /\ getValue(Store, t).value[1] = 1
    /\ \E t \in Ticks \ {last.tick} :
           /\ getWordPosition(t).wordIndex = getWordPosition(last.tick).wordIndex
           /\ getValue(Store, t).value[1] = 0 /\ getValue(Store, t).value[2] > 0

\* C18: update(tick, delta) leaves every node of its path at (old value + delta) modulo
\* 2^64, for positive and negative delta, and every stored slot is in [0, 2^64).
C18_Wraparound ==
    /\ last.op = "update" =>
           \A i \in 1..Len(last.operations) :
               LET t == last.operations[i].tick
               IN  getValue(Store, t).value
                       = Mod64(BigAdd(getValue(pre.store, t).value, Big(last.delta)))
    /\ \A w \in DOMAIN tree : \A i \in 0..3 : InRange64(tree[w][i])

\* C18 witness: a positive update takes a node from 2^64 - 1 to 1 and another node from 0
\* to 2, after a negative update took the first below zero
C18_Witness ==
    /\ last.op = "update" /\ last.delta = 2
    /\ \E i, j \in 1..Len(last.operations) :
           /\ getValue(pre.store, last.operations[i].tick).value = <<1, -1>>
           /\ getValue(Store, last.operations[i].tick).value = <<0, 1>>
           /\ getValue(pre.store, last.operations[j].tick).value = <<0, 0>>
           /\ getValue(Store, last.operations[j].tick).value = <<0, 2>>

\* the concatenation of the logs of query(qs[1]), query(qs[2]), ... issued in this order
RECURSIVE LogOf(_, _)
LogOf(s, qs) ==
    IF qs = <<>> THEN <<>>
    ELSE LET r == query(s, qs[1]) IN r.operations \o LogOf(r.s, Tail(qs))

\* the ticks queried by the last search: maxTicks - 1, then mid - 1 for every visited mid # 0
SearchQueries ==
    LET visited == SelectSeq(last.iterations, LAMBDA it : it.mid # 0)
    IN  <<MAX_TICKS - 1>> \o [i \in 1..Len(visited) |-> visited[i].mid - 1]

\* C21 on the later simulators (part_001), where it holds: on a successful search queryOps
\* is the log of query(maxTicks - 1) followed by the
\* logs of query(mid - 1) for every visited mid # 0, in order, and its number of cold
\* records is the number of words the search added to the read-seen set.
C21_QueryOpsConcatenation ==
    (last.op = "clear" /\ last.clearingPrice # -1) =>
        /\ last.queryOps = LogOf(pre.store, SearchQueries)
        /\ Cardinality({i \in 1..Len(last.queryOps) : last.queryOps[i].isCold})
               = Cardinality(last.searched.accessedWords \ pre.store.accessedWords)

\* C21 witness: a search of three or more queries that reads a word for the first time
\* and also returns warm records
C21_Witness ==
    /\ last.op = "clear" /\ last.clearingPrice \in Ticks
    /\ Len(SearchQueries) >= 3
    /\ \E i \in 1..Len(last.queryOps) : last.queryOps[i].isCold
    /\ \E i \in 1..Len(last.queryOps) : ~last.queryOps[i].isCold
    /\ pre.store.accessedWords # {}

Log2Floor(n) == CHOOSE k \in 0..30 : 2 ^ k <= n /\ n < 2 ^ (k + 1)

\* C24: the loop of a successful search starts at low = 0, high = maxTicks, every
\* iteration (the mid = 0 skip included) strictly decreases high - low, the loop ends with
\* low > high, and it runs at most floor(log2(maxTicks + 1)) + 1 iterations.
C24_SearchTerminates ==
    (last.op = "clear" /\ last.clearingPrice # -1) =>
        LET its == last.iterations
            n == Len(its)
        IN  /\ n >= 1
            /\ its[1].low = 0 /\ its[1].high = MAX_TICKS
            /\ \A i \in 1..n : its[i].low <= its[i].high
            /\ \A i \in 1..(n - 1) :
                   its[i + 1].high - its[i + 1].low < its[i].high - its[i].low
            /\ last.high - last.low < its[n].high - its[n].low
            /\ last.low > last.high
            /\ n <= Log2Floor(MAX_TICKS + 1) + 1

\* C24 witness: a search on a non-empty book that narrows down to tick 0 and takes the
\* mid = 0 skip as its last iteration
C24_Witness ==
    /\ last.op = "clear" /\ last.clearingPrice # -1
    /\ Len(last.iterations) >= 3
    /\ last.iterations[Len(last.iterations)].mid = 0
    /\ last.low = 1 /\ last.high = 0
    /\ VolumeFrom(pre.vol, 0) > 0

\* the write sub-records of an update log, in log order
WritesOf(ops) == [i \in 1..Len(ops) |-> ops[i].writes[1]]

\* the read sub-records of an update log, in log order
ReadsOf(ops) == [i \in 1..Len(ops) |-> ops[i].reads[1]]

\* the update log of the transaction the last call opened
TxLog == IF last.op = "bid" THEN last.operations ELSE last.updateOps

\* C25: in the transaction opened by a bid (one update) or by the write phase of a clearing
\* (several updates), a write sub-record is cold exactly when it is the first write to its
\* word: one cold write per distinct word, all later writes to the word warm.
C25_OneColdWritePerWord ==
    (last.op = "bid" \/ (last.op = "clear" /\ last.clearingPrice # -1)) =>
        /\ \A i \in 1..Len(TxLog) :
               WritesOf(TxLog)[i].isCold <=> FirstOfWord(WritesOf(TxLog), i)
        /\ \A w \in {WritesOf(TxLog)[i].wordIndex : i \in 1..Len(TxLog)} :
               Cardinality({i \in 1..Len(TxLog) :
                               WritesOf(TxLog)[i].wordIndex = w /\ WritesOf(TxLog)[i].isCold}) = 1

\* C25 witness: a write phase of two update calls that writes one word three times and
\* another word once, on a store whose words were dirty from the bid before
C25_Witness ==
    /\ last.op = "clear" /\ last.clearingPrice # -1
    /\ \E i \in 1..(Len(TxLog) - 1) : TxLog[i + 1].tick < TxLog[i].tick
    /\ \E i, j, k \in 1..Len(TxLog) :
           /\ i < j /\ j < k
           /\ TxLog[i].wordIndex = TxLog[j].wordIndex /\ TxLog[j].wordIndex = TxLog[k].wordIndex
    /\ Cardinality({TxLog[i].wordIndex : i \in 1..Len(TxLog)}) = 2
    /\ pre.store.dirtyWords # {}

\* C26: in the log of every bid the first write to each word is cold and the later ones
\* warm, whatever earlier bids wrote; a read is cold exactly when its word was not in the
\* read-seen set and was not read earlier in this log, and a cold read is of a word no
\* earlier returned log read.
C26_BidIsOwnTransaction ==
    last.op = "bid" =>
        \A i \in 1..Len(last.operations) :
            /\ WritesOf(last.operations)[i].isCold <=> FirstOfWord(WritesOf(last.operations), i)
            /\ ReadsOf(last.operations)[i].isCold
                   <=> (ReadsOf(last.operations)[i].wordIndex \notin pre.store.accessedWords
                        /\ FirstOfWord(ReadsOf(last.operations), i))
            /\ ReadsOf(last.operations)[i].isCold
                   => ReadsOf(last.operations)[i].wordIndex \notin pre.seen

\* C26 witness: a bid writes cold, with a warm read, a word that the bid before left dirty
C26_Witness ==
    /\ last.op = "bid"
    /\ \E i \in 1..Len(last.operations) :
           /\ last.operations[i].wordIndex \in pre.store.dirtyWords
           /\ WritesOf(last.operations)[i].isCold
           /\ ~ReadsOf(last.operations)[i].isCold
    /\ \E i \in 1..Len(last.operations) : ~WritesOf(last.operations)[i].isCold

\* C30: whenever the search succeeds, for any target, the clearing price is a tick of
\* [0, maxTicks).
C30_ClearingPriceIsTick ==
    (last.op = "clear" /\ last.clearingPrice # -1) => last.clearingPrice \in Ticks

\* the lowest set bit of idx > 0: the largest power of two that divides idx
Lsb(idx) == CHOOSE p \in {2 ^ k : k \in 0..14} : idx % p = 0 /\ idx % (2 * p) # 0

\* C22: the log of update(tick, delta) has one record per node idx_0 = tick + 1,
\* idx_{k+1} = idx_k + lsb(idx_k), for exactly the idx_k <= maxTicks, record k with tick
\* idx_k - 1, ticks strictly increasing, wordIndex = floor(tick / 4), one read and one
\* write sub-record of that word; the log of query(tick) follows idx_{k+1} = idx_k -
\* lsb(idx_k) down to 0, ticks strictly decreasing.
C22_UpdatePath ==
    LET ops == last.operations
        n == Len(ops)
    IN  /\ last.op = "update" =>
               /\ n >= 1 /\ ops[1].tick = last.tick
               /\ \A k \in 1..n : ops[k].tick + 1 <= MAX_TICKS
               /\ \A k \in 1..(n - 1) :
                      /\ ops[k + 1].tick + 1 = (ops[k].tick + 1) + Lsb(ops[k].tick + 1)
                      /\ ops[k].tick < ops[k + 1].tick
               /\ (ops[n].tick + 1) + Lsb(ops[n].tick + 1) > MAX_TICKS
               /\ \A k \in 1..n :
                      /\ ops[k].wordIndex = ops[k].tick \div 4
                      /\ Len(ops[k].reads) = 1 /\ Len(ops[k].writes) = 1
                      /\ ops[k].reads[1].wordIndex = ops[k].wordIndex
                      /\ ops[k].writes[1].wordIndex = ops[k].wordIndex
        /\ last.op = "query" =>
               /\ n = 0 <=> last.tick = -1
               /\ n >= 1 => /\ ops[1].tick = last.tick
                             /\ (ops[n].tick + 1) - Lsb(ops[n].tick + 1) = 0
               /\ \A k \in 1..(n - 1) :
                      /\ ops[k + 1].tick + 1 = (ops[k].tick + 1) - Lsb(ops[k].tick + 1)
                      /\ ops[k].tick > ops[k + 1].tick
               /\ \A k \in 1..n : ops[k].wordIndex = ops[k].tick \div 4

\* C22 witness: update(0, delta) has touched nodes 1, 2 and 4: ticks 0, 1, 3
C22_Witness ==
    /\ last.op = "update" /\ last.tick = 0
    /\ [k \in 1..Len(last.operations) |-> last.operations[k].tick] = <<0, 1, 3>>
    /\ pre.store.tree # <<>>

RECURSIVE PopCount(_)
PopCount(n) == IF n = 0 THEN 0 ELSE (n % 2) + PopCount(n \div 2)

\* C23: update(tick, delta) visits at most floor(log2(maxTicks)) + 1 nodes and query(tick)
\* visits exactly popcount(tick + 1) nodes, for every tick of [0, maxTicks).
C23_LogarithmicSteps ==
    /\ last.op = "update" => Len(last.operations) <= Log2Floor(MAX_TICKS) + 1
    /\ last.op = "query" => Len(last.operations) = PopCount(last.tick + 1)
    /\ \A t \in Ticks :
           /\ Len(query(Store, t).operations) = PopCount(t + 1)
           /\ Len(update(Store, t, Big(1)).operations) <= Log2Floor(MAX_TICKS) + 1

\* C23 witness: query(maxTicks - 1) on a store that holds volume, with popcount(maxTicks)
\* visits
C23_Witness ==
    /\ last.op = "query" /\ last.tick = MAX_TICKS - 1
    /\ Len(last.operations) = PopCount(MAX_TICKS)
    /\ Len(last.operations) >= 2
    /\ TotalVolume > 0

\* C29: the write-dirty set and the keys of the word mapping are subsets of the read-seen
\* set, and no record of an update log has a cold read with a warm write.
C29_DirtyWithinSeen ==
    /\ dirtyWords \subseteq accessedWords
    /\ DOMAIN tree \subseteq accessedWords
    /\ last.op = "update" =>
           \A i \in 1..Len(last.operations) :
               ~(last.operations[i].reads[1].isCold /\ ~last.operations[i].writes[1].isCold)

\* C29 witness: an update in a transaction with a dirty word reads and writes a new word
\* cold and then writes it warm
C29_Witness ==
    /\ last.op = "update"
    /\ pre.store.dirtyWords # {}
    /\ \E i, j \in 1..Len(last.operations) :
           /\ last.operations[i].reads[1].isCold /\ last.operations[i].writes[1].isCold
           /\ ~last.operations[j].reads[1].isCold /\ ~last.operations[j].writes[1].isCold
    /\ dirtyWords # pre.store.dirtyWords

\* C27: steps 1-3 of bid(tick, amount) add amount to volume[tick] and to Vstar and set the
\* bit of the tick; the volume write costs 20000 when the tick had no slot before the call
\* and 5000 when it had one; the bitmap write is charged only when the mask changes, 20000
\* when the block mask was zero and 5000 otherwise.
C27_BidSteps ==
    (fpc = "loop" /\ call.clearEvents = <<>>) =>
        LET blockIndex == call.tick \div 256
            tickInBlock == call.tick % 256
            oldMask == maskGet(bidPre.blockBits, blockIndex)
        IN  /\ volumeGet(volume, call.tick) = volumeGet(bidPre.volume, call.tick) + call.amount
            /\ Vstar = bidPre.Vstar + call.amount
            /\ tickInBlock \in maskGet(blockBits, blockIndex)
            /\ call.gasDetails[1].gas
                   = (IF call.tick \in DOMAIN bidPre.volume THEN 5000 ELSE 20000)
            /\ IF tickInBlock \in oldMask
               THEN Len(call.gasDetails) = 1
               ELSE /\ Len(call.gasDetails) = 2
                    /\ call.gasDetails[2].gas = (IF oldMask = {} THEN 20000 ELSE 5000)
            /\ call.totalGas = SumGas(call.gasDetails, Len(call.gasDetails))

\* the ticks whose presence bit is set in the block masks b
SetTicksOf(b) ==
    {t \in 0 .. (maxTicks - 1) : (t % BLOCK_SIZE) \in maskGet(b, t \div BLOCK_SIZE)}

\* an eviction step: the running bid has one more clear event
Evicted == fpc = "loop" /\ Len(call'.clearEvents) = Len(call.clearEvents) + 1

\* C28: an eviction step subtracts volume[Pstar] from Vstar, deletes the volume entry of
\* Pstar, clears the presence bit of Pstar and leaves the volume entry and presence bit of
\* every other tick as they are; Vstar is never negative.
C28_EvictionFrame ==
    [][/\ Vstar' >= 0
       /\ Evicted =>
              /\ Vstar' = Vstar - volumeGet(volume, Pstar)
              /\ DOMAIN volume' = (DOMAIN volume) \ {Pstar}
              /\ \A t \in DOMAIN volume' : volume'[t] = volume[t]
              /\ SetTicksOf(blockBits') = SetTicksOf(blockBits) \ {Pstar}]_vars

\* C28 witness: an eviction removed a tick that held volume and had its bit set, while
\* other ticks hold volume and bits
C28_Witness ==
    /\ fpc = "loop" /\ Len(call.clearEvents) = 1
    /\ LET from == call.clearEvents[1].from
       IN  /\ from \in DOMAIN bidPre.volume /\ bidPre.volume[from] > 0
           /\ from \in SetTicksOf(bidPre.blockBits)
           /\ from \notin DOMAIN volume /\ from \notin SetTicksOf(blockBits)
    /\ Cardinality(DOMAIN volume) >= 2
    /\ Cardinality(SetTicksOf(blockBits)) >= 2

\* the ticks whose presence bit is set in the block masks b, in any block
BitTicks(b) == UNION {{(k * BLOCK_SIZE) + x : x \in b[k]} : k \in DOMAIN b}

\* C31: in every state of the frontier auction, between bids and between the eviction
\* steps of a bid, the presence bit of a tick is set exactly when the tick has an entry in
\* the volume map.
C31_BitIffVolumeEntry == BitTicks(blockBits) = DOMAIN volume

\* C31 witness: a bid has returned after evicting a tick that held volume; the evicted tick
\* has neither entry nor bit, and other ticks have both
C31_Witness ==
    /\ fpc = "idle" /\ bidResult.returned
    /\ Len(bidResult.clearEvents) >= 1
    /\ LET from == bidResult.clearEvents[1].from
       IN  /\ from \in DOMAIN bidPre.volume
           /\ from \notin DOMAIN volume /\ from \notin BitTicks(blockBits)
    /\ DOMAIN volume # {}
    /\ BitTicks(blockBits) = DOMAIN volume

\* C32: when a bid has returned, its clearing transitions form a chain: the first starts at
\* the Pstar before the call, each ends where the next starts, every one has from < to, and
\* the last ends at the Pstar of the summary (which is the Pstar before the call when there
\* is no transition); totalGas is the sum of the gas of all returned detail entries.
C32_ClearEventsChain ==
    (fpc = "idle" /\ bidResult.returned) =>
        LET ev == bidResult.clearEvents
            n == Len(ev)
        IN  /\ n = 0 => bidResult.Pstar = bidPre.Pstar
            /\ n > 0 => /\ ev[1].from = bidPre.Pstar
                        /\ ev[n].to = bidResult.Pstar
            /\ \A i \in 1..(n - 1) : ev[i].to = ev[i + 1].from
            /\ \A i \in 1..n : ev[i].from < ev[i].to
            /\ bidResult.totalGas = SumGas(bidResult.details, Len(bidResult.details))

\* C32 witness: a bid that changed a block mask has returned with three transitions, the
\* last of which scanned blocks
C32_Witness ==
    /\ fpc = "idle" /\ bidResult.returned
    /\ Len(bidResult.clearEvents) = 3
    /\ Len(bidResult.details) = 5
    /\ bidResult.clearEvents[1].from = bidPre.Pstar
    /\ bidResult.clearEvents[3].to = bidResult.Pstar
    /\ bidResult.clearEvents[3].gas > WARM_SSTORE + WARM_SSTORE
    /\ bidResult.totalGas = SumGas(bidResult.details, 5)

\* the slots of the words that hold the nodes of the tree
Slots == 0 .. ((4 * ((MAX_TICKS + 3) \div 4)) - 1)

\* what every slot of the store s reads
SlotValues(s) == [t \in Slots |-> getValue(s, t).value]

\* C33: after update(tick, delta), update(tick, -delta) makes every slot read what it read
\* before the first call (slots hold values modulo 2^64), and an update at another tick
\* gives the same slot values whether it runs after or before update(tick, delta).
C33_UpdateInvertibleCommutes ==
    last.op = "update" =>
        /\ SlotValues(update(Store, last.tick, Big(0 - last.delta)).s) = SlotValues(pre.store)
        /\ \A t2 \in WrapTicks \ {last.tick}, d2 \in {-1, 2} :
               SlotValues(update(Store, t2, Big(d2)).s)
                   = SlotValues(update(update(pre.store, t2, Big(d2)).s,
                                       last.tick, Big(last.delta)).s)

\* C33 witness: an update with a negative delta wrapped a slot that read 0 to 2^64 - 1 in a
\* store where another slot reads a non-zero value
C33_Witness ==
    /\ last.op = "update" /\ last.delta = -1
    /\ SlotValues(pre.store)[last.tick] = <<0, 0>>
    /\ SlotValues(Store)[last.tick] = <<1, -1>>
    /\ \E t \in Slots : SlotValues(pre.store)[t] \notin {<<0, 0>>, <<1, -1>>}
    /\ SlotValues(update(Store, last.tick, Big(1)).s) = SlotValues(pre.store)

\* the words read by query(MAX_TICKS - 1) in the store s
TotalQueryWords(s) == ReadWordsOfQuery(query(s, MAX_TICKS - 1).operations)

\* C34: a search that fails for insufficient volume leaves every slot value, the word map
\* and the write-dirty set as they were and returns an empty log, but the words on the path
\* of query(maxTicks - 1) are in the read-seen set afterwards, and every later read of one
\* of them is classified warm.
C34_FailedSearchMarksReads ==
    (last.op = "clear" /\ last.clearingPrice = -1) =>
        /\ SlotValues(Store) = SlotValues(pre.store)
        /\ tree = pre.store.tree
        /\ dirtyWords = pre.store.dirtyWords
        /\ last.queryOps = <<>>
        /\ accessedWords = pre.store.accessedWords \cup TotalQueryWords(pre.store)
        /\ \A t \in QueryTicks :
               LET ops == query(Store, t).operations
               IN  \A i \in 1..Len(ops) :
                       ops[i].wordIndex \in TotalQueryWords(pre.store) => ~ops[i].isCold

\* C34 witness: a search failed on a non-empty book whose total-volume query read a word no
\* earlier call had read; the word is read-seen now although the returned log is empty
C34_Witness ==
    /\ last.op = "clear" /\ last.clearingPrice = -1
    /\ last.queryOps = <<>>
    /\ VolumeFrom(pre.vol, 0) > 0
    /\ \E w \in TotalQueryWords(pre.store) :
           /\ w \notin pre.store.accessedWords
           /\ w \in accessedWords
           /\ w \notin seen

\* the ticks queried by the last search of the first simulator: maxTicks - 1, then mid and
\* mid - 1 for every visited mid
DraftQueries ==
    <<MAX_TICKS - 1>>
        \o [i \in 1..(2 * Len(last.iterations)) |->
               IF i % 2 = 1 THEN last.iterations[(i + 1) \div 2].mid
               ELSE last.iterations[i \div 2].mid - 1]

\* C21: on a successful search the returned queryOps is the concatenation, in the order of
\* issue, of the logs of all queries of the search, and its number of cold records is the
\* number of words the search added to the read-seen set.  Stated for the search of the
\* first simulator.
C21_DraftQueryOpsConcatenation ==
    (last.op = "clearDraft" /\ last.clearingPrice # -1) =>
        /\ last.queryOps = LogOf(pre.store, DraftQueries)
        /\ Cardinality({i \in 1..Len(last.queryOps) : last.queryOps[i].isCold})
               = Cardinality(accessedWords \ pre.store.accessedWords)

====
